---- MODULE Spec2Model ----
(***************************************************************************)
(* Asynchronous job lifecycle of the Fast Track Job Processor backend:     *)
(* the job collection (JobRepository), the orchestrating JobService, the   *)
(* webhook callback route (webhookAuth -> validateBody -> controller ->    *)
(* handleWebhookCallback) and the in-memory MockJobQueue.                  *)
(*                                                                         *)
(* Every asynchronous function is cut at its awaits: what runs between two *)
(* awaits is one action, because Node runs it without interruption, and    *)
(* each database call (findById, findByIdAndUpdate, findByIdAndDelete,     *)
(* save) is one atomic step of the store.                                  *)
(***************************************************************************)
EXTENDS Integers, Sequences, FiniteSets, TLC

\* ------------------------------------------------------------------ bounds
MaxJobs == 2
MaxCreates == 1
MaxReq == 2
MaxTasks == 2
MaxUpdates == 2
MaxJitter == 0

\* ------------------------------------------------------- program constants
PromptTokensBase == 10
CompletionTokensBase == 50
CostPerToken == 2
CharsPerToken == 4
AiCostPerToken == 3
MaxPromptLen == 10000
MinPromptLen == 1

\* JavaScript's undefined and null, kept apart from every string value.
Undefined == "<undefined>"
Null == "<null>"

JobStatus == [PENDING |-> "PENDING", COMPLETED |-> "COMPLETED", FAILED |-> "FAILED"]

WEBHOOK_SECRET == "0123456789abcdef"

HallucinationResult == "{\"invalid_json\": this is not valid"

JobIds == 1 .. MaxJobs
Slots == 1 .. MaxReq
TaskIds == 1 .. MaxTasks

\* JavaScript truthiness of a string-or-undefined-or-null value.
Truthy(v) == v # Undefined /\ v # Null /\ v # ""

\* a || null
OrNull(v) == IF Truthy(v) THEN v ELSE Null

\* jobMetadataSchema with its default () => ({}): no field set.
NoMetadata == [set |-> FALSE, promptTokens |-> 0, completionTokens |-> 0,
               totalTokens |-> 0, estimatedCost |-> 0]

\* The metadata handleWebhookCallback makes up; estimatedCost is in units of
\* 0.00001 USD, so that totalTokens * 0.00002 stays an integer.
MockMetadata(p, c) ==
    [set |-> TRUE, promptTokens |-> p, completionTokens |-> c,
     totalTokens |-> p + c, estimatedCost |-> (p + c) * CostPerToken]

PromptTokenChoices == PromptTokensBase .. (PromptTokensBase + MaxJitter)
CompletionTokenChoices == CompletionTokensBase .. (CompletionTokensBase + MaxJitter)

\* A prompt is its length split in leading blanks, the trimmed core and
\* trailing blanks: all that the validators and the trim setter look at.
Prompt(l, c, t) == [lead |-> l, core |-> c, trail |-> t]
PromptLength(p) == p.lead + p.core + p.trail
Trim(p) == Prompt(0, p.core, 0)

Prompts == { Prompt(0, 0, 0), Prompt(1, 0, 0), Prompt(0, 1, 0), Prompt(1, 1, 1),
             Prompt(0, MaxPromptLen + 1, 0), Prompt(1, MaxPromptLen, 0) }

\* createJobSchema: z.string().min(1).max(10000); the issue, "" when none.
createJobSchema(p) ==
    IF PromptLength(p) < MinPromptLen THEN "Prompt cannot be empty"
    ELSE IF PromptLength(p) > MaxPromptLen THEN "Prompt cannot exceed 10000 characters"
    ELSE ""

\* jobSchema's prompt path: trim, then required and maxlength; the
\* ValidationError save() throws, "" when none.
jobSchema(p) ==
    IF PromptLength(Trim(p)) = 0 THEN "Prompt is required"
    ELSE IF PromptLength(Trim(p)) > MaxPromptLen THEN "Prompt cannot exceed 10000 characters"
    ELSE ""

\* new Job({ prompt }) with the schema defaults.
NewJob(p) == [prompt |-> Trim(p), status |-> JobStatus.PENDING, result |-> Null,
              error |-> Null, metadata |-> NoMetadata, updatedAt |-> 0]

VARIABLES
    jobs,         \* the Job collection: job id -> document, NoJob where none is stored
    nextId,       \* the next ObjectId the store hands out
    creating,     \* createJob calls between save() and enqueue(): id and saved document
    reqs,         \* the webhook callback requests being handled
    response,     \* the HTTP response written by the step just taken
    pendingJobs,  \* MockJobQueue.pendingJobs
    tasks,        \* MockJobQueue.processJob, one promise per enqueue call
    shutdownCalled  \* history: MockJobQueue.shutdown has been called (the class keeps no such flag)

vars == <<jobs, nextId, creating, reqs, response, pendingJobs, tasks, shutdownCalled>>


\* ------------------------------------------------------------ value domains
JobIdInputs == {0} \cup JobIds
ResultInputs == {Undefined, "", "summary text"}
ErrorInputs == {Undefined, "", "timeout"}
SecretInputs == {Undefined, "wrong-secret-0000", WEBHOOK_SECRET}
\* webhookAuth never reads the body: a request it refuses is sent with the
\* one body that would finalize the job if it got through.
UnauthorizedResult == "summary text"
AiResults == {"summary text"}
AiErrors == {"timeout", ""}
SkipLog == "already processed, skipping callback"
PromptMissing == "Job not found or has no prompt"

\* What a service method returns when it returns null.
NoJob == [prompt |-> Prompt(0, 0, 0), status |-> Null, result |-> Null,
          error |-> Null, metadata |-> NoMetadata, updatedAt |-> 0]

NoRequest == [pc |-> "idle", from |-> 0, jobId |-> 0, result |-> Undefined,
              error |-> Undefined, metadata |-> NoMetadata]

\* A callback whose handler awaits jobRepository.updateStatus.
Updating(from, jobId, result, error, metadata) ==
    [pc |-> "updateStatus", from |-> from, jobId |-> jobId, result |-> result,
     error |-> error, metadata |-> metadata]

\* The data of a response that carries no statistics.
NoStats == [s \in {JobStatus.PENDING, JobStatus.COMPLETED, JobStatus.FAILED} |-> -1]

\* What a step wrote: the HTTP response (its status, its error message, the
\* _id and the document it carries) and the handler's console.log line.
Response(op, code, message, id, job, log) ==
    [op |-> op, code |-> code, message |-> message, id |-> id, job |-> job, log |-> log,
     stats |-> NoStats]

NoResponse == Response("none", 0, "", 0, NoJob, "")

\* A processJob call: where it stands, the id it was given, the prompt it
\* fetched and what the processor returned or threw.
NoTask == [pc |-> "none", jobId |-> 0, prompt |-> Prompt(0, 0, 0), result |-> Undefined,
           error |-> Undefined, metadata |-> NoMetadata]

\* MockAIProcessor.process: Math.ceil(length / 4) tokens for the prompt and
\* for the result, estimatedCost = totalTokens * 0.00003 (in units of
\* 0.00001 USD).
TokenCount(length) == (length + CharsPerToken - 1) \div CharsPerToken

AiMetadata(prompt, result) ==
    LET promptTokens == TokenCount(PromptLength(prompt))
        completionTokens == TokenCount(Len(result))
    IN [set |-> TRUE, promptTokens |-> promptTokens, completionTokens |-> completionTokens,
        totalTokens |-> promptTokens + completionTokens,
        estimatedCost |-> (promptTokens + completionTokens) * AiCostPerToken]

\* --------------------------------------------------------- JobRepository
\* Job.findById(id): the document, or null.
findById(js, id) == js[id]

\* updateData with "if (result)" and "if (error)" in place of the comparisons
\* with undefined: a null argument no longer clears the field.
updateDataTruthy(doc, status, result, error, metadata) ==
    [doc EXCEPT !.status = status,
                !.result = IF Truthy(result) THEN result ELSE @,
                !.error = IF Truthy(error) THEN error ELSE @,
                !.metadata = IF metadata.set THEN metadata ELSE @,
                !.updatedAt = @ + 1]

\* findByIdAndUpdate given updateData without $set: the document is replaced,
\* and the fields updateData does not name are lost.
updateDataReplace(doc, status, result, error, metadata) ==
    [NoJob EXCEPT !.status = status,
                  !.result = IF result # Undefined THEN result ELSE Null,
                  !.error = IF error # Undefined THEN error ELSE Null,
                  !.metadata = metadata,
                  !.updatedAt = doc.updatedAt + 1]

\* updateStatus builds updateData from the arguments that are not undefined
\* and $sets it; the timestamps option refreshes updatedAt.
updateData(doc, status, result, error, metadata) ==
    [doc EXCEPT !.status = status,
                !.result = IF result # Undefined THEN result ELSE @,
                !.error = IF error # Undefined THEN error ELSE @,
                !.metadata = IF metadata.set THEN metadata ELSE @,
                !.updatedAt = @ + 1]

\* The update without its _id filter (updateMany): every document is written.
updateStatusAll(js, id, status, result, error, metadata) ==
    [j \in JobIds |-> IF js[j] # NoJob
                      THEN updateData(js[j], status, result, error, metadata)
                      ELSE js[j]]

\* The update filtered by {status: PENDING} in place of the _id: every
\* PENDING document is written when the one asked for is PENDING.
updateStatusPending(js, id, status, result, error, metadata) ==
    IF js[id] = NoJob THEN js
    ELSE [j \in JobIds |->
            IF j = id \/ (js[j] # NoJob /\ js[j].status = JobStatus.PENDING
                            /\ js[id].status = JobStatus.PENDING)
            THEN updateData(js[j], status, result, error, metadata)
            ELSE js[j]]

\* findByIdAndUpdate with upsert: an id with no document gets one.
updateStatusUpsert(js, id, status, result, error, metadata) ==
    [js EXCEPT ![id] = updateData(js[id], status, result, error, metadata)]

\* Job.findByIdAndUpdate(id, {$set: updateData}, {new: true}): the collection
\* after the call; an id with no document matches nothing (no upsert).
updateStatus(js, id, status, result, error, metadata) ==
    IF js[id] # NoJob
    THEN [js EXCEPT ![id] = updateData(js[id], status, result, error, metadata)]
    ELSE js

\* findByIdAndDelete narrowed by a status filter: only a PENDING document goes.
deleteOnlyPending(js, id) ==
    IF js[id].status = JobStatus.PENDING THEN [js EXCEPT ![id] = NoJob] ELSE js

\* Job.findByIdAndDelete(id): the collection after the call.
delete(js, id) == [js EXCEPT ![id] = NoJob]

\* Job.aggregate([{$group: {_id: '$status', count: {$sum: 1}}}]) with the
\* group key lost: every document falls in one group.
aggregateUngrouped(js) ==
    IF \E j \in JobIds : js[j] # NoJob
    THEN { [_id |-> Null, count |-> Cardinality({j \in JobIds : js[j] # NoJob})] }
    ELSE {}

\* Job.aggregate([{$group: {_id: '$status', count: {$sum: 1}}}]): one group
\* per status value that some document has.
aggregate(js) ==
    { [_id |-> s, count |-> Cardinality({j \in JobIds : js[j] # NoJob /\ js[j].status = s})] :
        s \in { js[j].status : j \in {k \in JobIds : js[k] # NoJob} } }

\* countByStatus: counts starts at zero for the three statuses and takes the
\* count of each group of the aggregation.
countByStatus(js) ==
    LET results == aggregate(js)
    IN [s \in {JobStatus.PENDING, JobStatus.COMPLETED, JobStatus.FAILED} |->
            IF \E g \in results : g._id = s
            THEN (CHOOSE g \in results : g._id = s).count
            ELSE 0]

\* ------------------------------------------------- middleware and schemas
\* webhookAuth without the comparison with env.WEBHOOK_SECRET: any header
\* that is present passes.
webhookAuthPresenceOnly(secret) ==
    IF ~Truthy(secret)
    THEN Response("webhookCallback", 401, "Missing X-Shared-Secret header", 0, NoJob, "")
    ELSE NoResponse

\* webhookAuth: the response it refuses the request with, NoResponse when it
\* calls next().
webhookAuth(secret) ==
    IF ~Truthy(secret)
    THEN Response("webhookCallback", 401, "Missing X-Shared-Secret header", 0, NoJob, "")
    ELSE IF secret # WEBHOOK_SECRET
    THEN Response("webhookCallback", 403, "Invalid X-Shared-Secret", 0, NoJob, "")
    ELSE NoResponse

\* webhookCallbackSchema without its refine().
webhookCallbackSchemaNoRefine(jobId, result, error) ==
    IF jobId = 0 THEN "Job ID is required" ELSE ""

\* webhookCallbackSchema: jobId non-empty, result and error optional strings,
\* refined by result !== undefined || error !== undefined.
\* The issue it reports, "" when the body parses.
webhookCallbackSchema(jobId, result, error) ==
    IF jobId = 0 THEN "Job ID is required"
    ELSE IF ~(result # Undefined \/ error # Undefined)
    THEN "Either result or error must be provided"
    ELSE ""

\* validateBody(schema): answers 400 with the schema's issue, or calls next().
validateBody(op, issue) ==
    IF issue # ""
    THEN Response(op, 400, issue, 0, NoJob, "")
    ELSE NoResponse

\* ------------------------------------------------------------ JobService
\* handleWebhookCallback without its status check.
AlreadyProcessedNever(job) == FALSE

\* handleWebhookCallback, line 68: the job was already processed.
AlreadyProcessed(job) == job.status # JobStatus.PENDING

\* The status left as it was when the report carries no error.
CallbackStatusKeepsPending(error) ==
    IF Truthy(error) THEN JobStatus.FAILED ELSE JobStatus.PENDING

\* handleWebhookCallback, line 73.
CallbackStatus(error) == IF Truthy(error) THEN JobStatus.FAILED ELSE JobStatus.COMPLETED

\* The controller without "if (!job)": reading job._id of null throws, and
\* the error handler answers 500.
JobResponseNoNullCheck(op, id, job, log) ==
    IF job = NoJob
    THEN Response(op, 500, "Cannot read properties of null", 0, NoJob, log)
    ELSE Response(op, 200, "", id, job, log)

\* JobController.webhookCallback and simulateHallucination: a null from the
\* service becomes ApiError(404), a document is answered with 200.
JobResponse(op, id, job, log) ==
    IF job = NoJob
    THEN Response(op, 404, "Job not found", 0, NoJob, log)
    ELSE Response(op, 200, "", id, job, log)

Init ==
    /\ jobs = [j \in JobIds |-> NoJob]
    /\ nextId = 1
    /\ creating = {}
    /\ reqs = [r \in Slots |-> NoRequest]
    /\ response = NoResponse
    /\ pendingJobs = {}
    /\ tasks = [t \in TaskIds |-> NoTask]
    /\ shutdownCalled = FALSE

\* A write to an existing document is modelled while its updatedAt is below
\* the cap.
CanWrite(id) == jobs[id] # NoJob => jobs[id].updatedAt < MaxUpdates


\* The lowest idle slot: the requests being handled are kept in arrival
\* order of their slots, which one is used makes no difference.
FreeSlot == CHOOSE r \in Slots : reqs[r].pc = "idle" /\ \A q \in 1 .. (r - 1) : reqs[q].pc # "idle"

\* The lowest task number not used yet: tasks are numbered in the order of
\* the enqueue calls.
FreeTask == CHOOSE t \in TaskIds : tasks[t].pc = "none" /\ \A u \in 1 .. (t - 1) : tasks[u].pc # "none"

\* enqueue's call of processJob(jobId), which runs up to its first await.
StartTask(jobId) ==
    [tasks EXCEPT ![FreeTask] = [NoTask EXCEPT !.pc = "promptFetcher", !.jobId = jobId]]

\* fetch rejecting on every response: the task is thrown back into a new
\* delivery of a failure report, and never settles.
ResolveThrows(from) ==
    IF from # 0
    THEN [tasks EXCEPT ![from].pc = "postError", ![from].error = "fetch failed"]
    ELSE tasks

\* processJob throwing on a response that is not ok: the task enters its
\* catch block and posts a failure report.
ResolveOnlyOk(from) ==
    IF from = 0 THEN tasks
    ELSE IF response'.code = 200 THEN [tasks EXCEPT ![from].pc = "resolved"]
    ELSE [tasks EXCEPT ![from].pc = "postError", ![from].error = "callback refused"]

\* A response to a request the queue sent resolves that task's fetch.
Resolve(from) == IF from # 0 THEN [tasks EXCEPT ![from].pc = "resolved"] ELSE tasks

\* ------------------------------------------------------- POST /jobs
\* validateBody(createJobSchema), JobController.createJob, JobService.createJob
\* up to the end of jobRepository.create.
CreateJobSave(p) ==
    /\ nextId <= MaxJobs
    /\ UNCHANGED <<reqs, pendingJobs, tasks, shutdownCalled>>
    /\ IF validateBody("createJob", createJobSchema(p)) # NoResponse
       THEN /\ response' = validateBody("createJob", createJobSchema(p))
            /\ UNCHANGED <<jobs, nextId, creating>>
       ELSE IF jobSchema(p) # ""
       THEN /\ response' = Response("createJob", 400, "Validation failed", 0, NoJob, "")
            /\ UNCHANGED <<jobs, nextId, creating>>
       ELSE /\ jobs' = [jobs EXCEPT ![nextId] = NewJob(p)]
            /\ nextId' = nextId + 1
            /\ creating' = creating \cup {[id |-> nextId, job |-> NewJob(p)]}
            /\ response' = NoResponse

\* enqueue with "await this.processJob(jobId)": createJob answers only when
\* the task has settled.
CreateJobEnqueueAwaited(c) ==
    /\ c \in creating
    /\ creating' = creating \ {c}
    /\ pendingJobs' = pendingJobs
    /\ \E t \in TaskIds : tasks[t].pc = "none"
    /\ tasks' = [tasks EXCEPT ![FreeTask] = [NoTask EXCEPT !.pc = "finished", !.jobId = c.id]]
    /\ response' = Response("createJob", 201, "", c.id, c.job, "")
    /\ UNCHANGED <<jobs, nextId, reqs, shutdownCalled>>

\* MockJobQueue.enqueue as called by createJob: the id joins pendingJobs and
\* processJob starts, running up to its first await; createJob then returns
\* the document it saved.
CreateJobEnqueue(c) ==
    /\ c \in creating
    /\ creating' = creating \ {c}
    /\ pendingJobs' = pendingJobs \cup {c.id}
    /\ \E t \in TaskIds : tasks[t].pc = "none"
    /\ tasks' = StartTask(c.id)
    /\ response' = Response("createJob", 201, "", c.id, c.job, "")
    /\ UNCHANGED <<jobs, nextId, reqs, shutdownCalled>>

\* createJob with a rollback: the record is deleted when enqueue rejects.
CreateJobEnqueueFailsRollback(c) ==
    /\ c \in creating
    /\ creating' = creating \ {c}
    /\ jobs' = delete(jobs, c.id)
    /\ response' = Response("createJob", 500, "enqueue failed", 0, NoJob, "")
    /\ UNCHANGED <<nextId, reqs, pendingJobs, tasks, shutdownCalled>>

\* jobQueue.enqueue rejects (JobQueueInterface lets an implementation do so;
\* MockJobQueue.enqueue itself never does): createJob rejects after the save,
\* and the error handler answers 500.
CreateJobEnqueueFails(c) ==
    /\ c \in creating
    /\ creating' = creating \ {c}
    /\ response' = Response("createJob", 500, "enqueue failed", 0, NoJob, "")
    /\ UNCHANGED <<jobs, nextId, reqs, pendingJobs, tasks, shutdownCalled>>

\* ------------------------------------------------------- POST /webhook/callback
\* A callback request is handled up to the second await of
\* handleWebhookCallback: webhookAuth, validateBody(webhookCallbackSchema),
\* JobController.webhookCallback, and handleWebhookCallback from findById to
\* its early returns or to the call of updateStatus.  Nothing before findById
\* reads or writes shared state, so the arrival and the read are one step.
WebhookCallback(from, jobId, result, error, secret) ==
    LET existingJob == findById(jobs, jobId)
        issue == webhookCallbackSchema(jobId, result, error)
    IN /\ \E r \in Slots : reqs[r].pc = "idle"
       /\ IF webhookAuth(secret) # NoResponse
          THEN /\ response' = webhookAuth(secret)
               /\ tasks' = Resolve(from)
               /\ UNCHANGED reqs
          ELSE IF validateBody("webhookCallback", issue) # NoResponse
          THEN /\ response' = validateBody("webhookCallback", issue)
               /\ tasks' = Resolve(from)
               /\ UNCHANGED reqs
          ELSE IF existingJob = NoJob
          THEN /\ response' = JobResponse("webhookCallback", jobId, NoJob, "")
               /\ tasks' = Resolve(from)
               /\ UNCHANGED reqs
          ELSE IF AlreadyProcessed(existingJob)
          THEN /\ response' = JobResponse("webhookCallback", jobId, existingJob, SkipLog)
               /\ tasks' = Resolve(from)
               /\ UNCHANGED reqs
          ELSE /\ \E p \in PromptTokenChoices, c \in CompletionTokenChoices :
                    reqs' = [reqs EXCEPT ![FreeSlot] =
                                Updating(from, jobId, result, error, MockMetadata(p, c))]
               /\ response' = NoResponse
               /\ tasks' = IF from # 0 THEN [tasks EXCEPT ![from].pc = "await"] ELSE tasks

\* A client other than the queue posts a callback.
PostCallback(jobId, result, error, secret) ==
    /\ WebhookCallback(0, jobId, result, error, secret)
    /\ UNCHANGED <<jobs, nextId, creating, pendingJobs, shutdownCalled>>

\* The handler answering without the write.
HandleUpdateStatusNoWrite(r) ==
    LET q == reqs[r]
    IN /\ q.pc = "updateStatus"
       /\ CanWrite(q.jobId)
       /\ reqs' = [reqs EXCEPT ![r] = NoRequest]
       /\ response' = JobResponse("webhookCallback", q.jobId, jobs[q.jobId], "")
       /\ tasks' = Resolve(q.from)
       /\ UNCHANGED <<jobs, nextId, creating, pendingJobs, shutdownCalled>>

\* jobRepository.updateStatus as called by handleWebhookCallback, and the
\* controller's answer.
HandleUpdateStatus(r) ==
    LET q == reqs[r]
        after == updateStatus(jobs, q.jobId, CallbackStatus(q.error), OrNull(q.result),
                              OrNull(q.error), q.metadata)
    IN /\ q.pc = "updateStatus"
       /\ CanWrite(q.jobId)
       /\ jobs' = after
       /\ reqs' = [reqs EXCEPT ![r] = NoRequest]
       /\ response' = JobResponse("webhookCallback", q.jobId, after[q.jobId], "")
       /\ tasks' = Resolve(q.from)
       /\ UNCHANGED <<nextId, creating, pendingJobs, shutdownCalled>>

\* ------------------------------------------------------- POST /jobs/:id/hallucinate
\* The anomaly with a fallback: an id with no record gets a new document
\* carrying the malformed result.
SimulateHallucinationCreates(j) ==
    LET after == IF jobs[j] = NoJob
                 THEN [jobs EXCEPT ![j] = [NewJob(Prompt(0, 1, 0)) EXCEPT
                                             !.status = JobStatus.COMPLETED,
                                             !.result = HallucinationResult]]
                 ELSE updateStatus(jobs, j, JobStatus.COMPLETED, HallucinationResult, Null, NoMetadata)
    IN /\ CanWrite(j)
       /\ jobs' = after
       /\ response' = JobResponse("simulateHallucination", j, after[j], "")
       /\ UNCHANGED <<nextId, creating, reqs, pendingJobs, tasks, shutdownCalled>>

\* The anomaly as a reset: the job is put back to PENDING.
SimulateHallucinationResets(j) ==
    LET after == updateStatus(jobs, j, JobStatus.PENDING, Null, Null, NoMetadata)
    IN /\ CanWrite(j)
       /\ jobs' = after
       /\ response' = JobResponse("simulateHallucination", j, after[j], "")
       /\ UNCHANGED <<nextId, creating, reqs, pendingJobs, tasks, shutdownCalled>>

\* JobService.simulateHallucination and the controller's answer.
SimulateHallucination(j) ==
    LET after == updateStatus(jobs, j, JobStatus.COMPLETED, HallucinationResult, Null, NoMetadata)
    IN /\ CanWrite(j)
       /\ jobs' = after
       /\ response' = JobResponse("simulateHallucination", j, after[j], "")
       /\ UNCHANGED <<nextId, creating, reqs, pendingJobs, tasks, shutdownCalled>>

\* ------------------------------------------------------- DELETE /jobs/:id
DeleteJob(j) ==
    /\ jobs' = delete(jobs, j)
    /\ response' = IF jobs[j] # NoJob
                   THEN Response("deleteJob", 200, "Job deleted successfully", 0, NoJob, "")
                   ELSE JobResponse("deleteJob", j, NoJob, "")
    /\ UNCHANGED <<nextId, creating, reqs, pendingJobs, tasks, shutdownCalled>>

\* ------------------------------------------------------- GET /jobs/stats
GetStats ==
    /\ response' = [Response("getStats", 200, "", 0, NoJob, "") EXCEPT
                        !.stats = countByStatus(jobs)]
    /\ UNCHANGED <<jobs, nextId, creating, reqs, pendingJobs, tasks, shutdownCalled>>

\* ------------------------------------------------------- MockJobQueue
\* enqueue called by a client of the queue other than createJob.
Enqueue(jobId) ==
    /\ \E t \in TaskIds : tasks[t].pc = "none"
    /\ pendingJobs' = pendingJobs \cup {jobId}
    /\ tasks' = StartTask(jobId)
    /\ response' = NoResponse
    /\ UNCHANGED <<jobs, nextId, creating, reqs, shutdownCalled>>

\* A queue with one worker: the processor is called only while no other
\* task is in it.
TaskPromptFetcherSerial(t) ==
    /\ tasks[t].pc = "promptFetcher"
    /\ \A u \in TaskIds : tasks[u].pc # "process"
    /\ tasks' = IF findById(jobs, tasks[t].jobId) = NoJob
                THEN [tasks EXCEPT ![t].pc = "postError", ![t].error = PromptMissing]
                ELSE [tasks EXCEPT ![t].pc = "process",
                                   ![t].prompt = findById(jobs, tasks[t].jobId).prompt]
    /\ response' = NoResponse
    /\ UNCHANGED <<jobs, nextId, creating, reqs, pendingJobs, shutdownCalled>>

\* Step 1: the prompt lookup answers; with a prompt the processor is called.
TaskPromptFetcher(t) ==
    /\ tasks[t].pc = "promptFetcher"
    /\ tasks' = IF findById(jobs, tasks[t].jobId) = NoJob
                THEN [tasks EXCEPT ![t].pc = "postError", ![t].error = PromptMissing]
                ELSE [tasks EXCEPT ![t].pc = "process",
                                   ![t].prompt = findById(jobs, tasks[t].jobId).prompt]
    /\ response' = NoResponse
    /\ UNCHANGED <<jobs, nextId, creating, reqs, pendingJobs, shutdownCalled>>

\* Step 2: the processor returns a result and its metadata, or throws.
TaskProcess(t) ==
    /\ tasks[t].pc = "process"
    /\ \/ \E res \in AiResults :
            tasks' = [tasks EXCEPT ![t].pc = "postResult", ![t].result = res,
                                   ![t].metadata = AiMetadata(tasks[t].prompt, res)]
       \/ \E e \in AiErrors :
            tasks' = [tasks EXCEPT ![t].pc = "postError", ![t].error = e]
    /\ response' = NoResponse
    /\ UNCHANGED <<jobs, nextId, creating, reqs, pendingJobs, shutdownCalled>>

\* Step 3 and the catch block: the report reaches the callback route.  The
\* metadata key of the success report is not part of webhookCallbackSchema and
\* the controller passes jobId, result and error only.
TaskPost(t) ==
    /\ tasks[t].pc \in {"postResult", "postError"}
    /\ IF tasks[t].pc = "postResult"
       THEN WebhookCallback(t, tasks[t].jobId, tasks[t].result, Undefined, WEBHOOK_SECRET)
       ELSE WebhookCallback(t, tasks[t].jobId, Undefined, tasks[t].error, WEBHOOK_SECRET)
    /\ UNCHANGED <<jobs, nextId, creating, pendingJobs, shutdownCalled>>

\* processJob with a retry: a failed delivery of the success report calls the
\* processor again.
TaskPostFailsRetry(t) ==
    /\ tasks[t].pc \in {"postResult", "postError"}
    /\ tasks' = IF tasks[t].pc = "postResult"
                THEN [tasks EXCEPT ![t].pc = "process", ![t].result = Undefined]
                ELSE [tasks EXCEPT ![t].pc = "resolved"]
    /\ response' = NoResponse
    /\ UNCHANGED <<jobs, nextId, creating, reqs, pendingJobs, shutdownCalled>>

\* fetch throws: a failed success report enters the catch block, a failed
\* failure report is logged and the promise resolves.
TaskPostFails(t) ==
    /\ tasks[t].pc \in {"postResult", "postError"}
    /\ tasks' = IF tasks[t].pc = "postResult"
                THEN [tasks EXCEPT ![t].pc = "postError", ![t].error = "fetch failed"]
                ELSE [tasks EXCEPT ![t].pc = "resolved"]
    /\ response' = NoResponse
    /\ UNCHANGED <<jobs, nextId, creating, reqs, pendingJobs, shutdownCalled>>

\* enqueue without its finally callback: the id stays in pendingJobs.
TaskFinallyKeepsId(t) ==
    /\ tasks[t].pc = "resolved"
    /\ tasks' = [tasks EXCEPT ![t].pc = "finished"]
    /\ response' = NoResponse
    /\ UNCHANGED <<jobs, nextId, creating, reqs, pendingJobs, shutdownCalled>>

\* A stuck-job sweep in the finally callback: a job still PENDING when its
\* task settles is marked FAILED.
TaskFinallyMarksFailed(t) ==
    /\ tasks[t].pc = "resolved"
    /\ tasks' = [tasks EXCEPT ![t].pc = "finished"]
    /\ pendingJobs' = pendingJobs \ {tasks[t].jobId}
    /\ response' = NoResponse
    /\ jobs' = IF jobs[tasks[t].jobId].status = JobStatus.PENDING
               THEN [jobs EXCEPT ![tasks[t].jobId].status = JobStatus.FAILED]
               ELSE jobs
    /\ UNCHANGED <<nextId, creating, reqs, shutdownCalled>>

\* processJob's promise settles and enqueue's finally callback runs.
TaskFinally(t) ==
    /\ tasks[t].pc = "resolved"
    /\ tasks' = [tasks EXCEPT ![t].pc = "finished"]
    /\ pendingJobs' = pendingJobs \ {tasks[t].jobId}
    /\ response' = NoResponse
    /\ UNCHANGED <<jobs, nextId, creating, reqs, shutdownCalled>>

\* shutdown that also drops the tasks of the ids it clears.
ShutdownCancels ==
    /\ pendingJobs' = {}
    /\ shutdownCalled' = TRUE
    /\ response' = NoResponse
    /\ tasks' = [t \in TaskIds |-> IF tasks[t].jobId \in pendingJobs THEN NoTask ELSE tasks[t]]
    /\ UNCHANGED <<jobs, nextId, creating, reqs>>

\* MockJobQueue.shutdown
Shutdown ==
    /\ pendingJobs' = {}
    /\ shutdownCalled' = TRUE
    /\ response' = NoResponse
    /\ UNCHANGED <<jobs, nextId, creating, reqs, tasks>>

Next ==
    \/ nextId <= MaxCreates /\ \E p \in Prompts : CreateJobSave(p)
    \/ \E c \in creating : CreateJobEnqueue(c)
    \/ \E c \in creating : CreateJobEnqueueFails(c)
    \/ \E jobId \in JobIdInputs, result \in ResultInputs, error \in ErrorInputs :
            PostCallback(jobId, result, error, WEBHOOK_SECRET)
    \/ \E jobId \in JobIdInputs, secret \in SecretInputs \ {WEBHOOK_SECRET} :
            PostCallback(jobId, UnauthorizedResult, Undefined, secret)
    \/ \E r \in Slots : HandleUpdateStatus(r)
    \/ \E j \in JobIds : SimulateHallucination(j)
    \/ \E j \in JobIds : DeleteJob(j)
    \/ GetStats
    \/ \E t \in TaskIds : TaskPromptFetcher(t)
    \/ \E t \in TaskIds : TaskProcess(t)
    \/ \E t \in TaskIds : TaskPost(t)
    \/ \E t \in TaskIds : TaskPostFails(t)
    \/ \E t \in TaskIds : TaskFinally(t)
    \/ Shutdown

Spec == Init /\ [][Next]_vars

\* What the scheduler guarantees: a lookup, a processor call and a fetch
\* that were started settle (a fetch by delivering or by throwing), a database
\* write that was started completes, and a settled promise runs its callback.
Fairness ==
    /\ \A t \in TaskIds :
          /\ WF_vars(TaskPromptFetcher(t))
          /\ WF_vars(TaskProcess(t))
          /\ WF_vars(TaskPost(t) \/ TaskPostFails(t))
          /\ WF_vars(TaskFinally(t))
    /\ \A r \in Slots : WF_vars(HandleUpdateStatus(r))

\* The steps that bear on a job's way to completion: the requests that
\* only answer (a refused callback, a refused prompt, getStats) and shutdown,
\* which touches pendingJobs alone, are left out.
FairNext ==
    \/ nextId <= MaxCreates /\ CreateJobSave(Prompt(0, 1, 0))
    \/ \E c \in creating : CreateJobEnqueue(c)
    \/ \E jobId \in JobIds, result \in {Undefined, "summary text"}, error \in {Undefined, "timeout"} :
            /\ result # Undefined \/ error # Undefined
            /\ PostCallback(jobId, result, error, WEBHOOK_SECRET)
    \/ \E r \in Slots : HandleUpdateStatus(r)
    \/ \E j \in JobIds : SimulateHallucination(j)
    \/ \E j \in JobIds : DeleteJob(j)
    \/ \E t \in TaskIds : TaskPromptFetcher(t)
    \/ \E t \in TaskIds : TaskProcess(t)
    \/ \E t \in TaskIds : TaskPost(t)
    \/ \E t \in TaskIds : TaskPostFails(t)
    \/ \E t \in TaskIds : TaskFinally(t)

FairSpec == Init /\ [][FairNext]_vars /\ Fairness

\* ------------------------------------------------------- the queue with two jobs
\* Two createJob calls, and direct enqueue calls for ids createJob returned,
\* with no other client of the store: the queue's tasks and the callbacks
\* they post.
QueueNext ==
    \/ nextId <= MaxJobs /\ CreateJobSave(Prompt(0, 1, 0))
    \/ \E c \in creating : CreateJobEnqueue(c)
    \/ \E jobId \in JobIds : jobId < nextId /\ Enqueue(jobId)
    \/ \E r \in Slots : HandleUpdateStatus(r)
    \/ \E t \in TaskIds : TaskPromptFetcher(t)
    \/ \E t \in TaskIds : TaskProcess(t)
    \/ \E t \in TaskIds : TaskPost(t)
    \/ \E t \in TaskIds : TaskPostFails(t)
    \/ \E t \in TaskIds : TaskFinally(t)
    \/ Shutdown

QueueSpec == Init /\ [][QueueNext]_vars

\* ------------------------------------------------------- after a restart
\* The documents a run of the service leaves in the database: none, a job
\* still PENDING, a job finalized by a report, a job hit by the anomaly.
PersistedJobs ==
    LET created == NewJob(Prompt(0, 1, 0))
        mock == MockMetadata(PromptTokensBase, CompletionTokensBase)
    IN { NoJob, created,
         updateData(created, JobStatus.COMPLETED, "summary text", Null, mock),
         updateData(created, JobStatus.FAILED, Null, "timeout", mock),
         updateData(created, JobStatus.COMPLETED, HallucinationResult, Null, NoMetadata) }

\* The process starts on a database that earlier runs filled: the collection
\* persists, the queue and the requests being handled do not.
RestartInit ==
    /\ jobs \in [JobIds -> PersistedJobs]
    /\ nextId = MaxJobs + 1
    /\ creating = {}
    /\ reqs = [r \in Slots |-> NoRequest]
    /\ response = NoResponse
    /\ pendingJobs = {}
    /\ tasks = [t \in TaskIds |-> NoTask]
    /\ shutdownCalled = FALSE

\* The requests that need no new document.
RestartNext ==
    \/ \E jobId \in JobIds, result \in {Undefined, "summary text"}, error \in {Undefined, "timeout"} :
            PostCallback(jobId, result, error, WEBHOOK_SECRET)
    \/ \E r \in Slots : HandleUpdateStatus(r)
    \/ \E j \in JobIds : SimulateHallucination(j)
    \/ \E j \in JobIds : DeleteJob(j)
    \/ GetStats

RestartSpec == RestartInit /\ [][RestartNext]_vars


\* ======================================================================
\* Properties
\* ======================================================================
\* The step is the write of slot r's handler (HandleUpdateStatus(r)).
WriteStep(r) == reqs[r].pc = "updateStatus" /\ reqs'[r].pc = "idle"

Terminal == {JobStatus.COMPLETED, JobStatus.FAILED}

\* The step may be the arrival of a callback: it answered one or started a
\* handler.
CallbackStep == response'.op = "webhookCallback" \/ reqs' # reqs

\* C1: at most one completion report changes a job's stored record, in every
\* interleaving of the handlers' read and write steps: a report's write never
\* changes a record that an earlier report has already changed (only a
\* report's write sets metadata).
C1_AtMostOneFinalizingWrite ==
    [][\A r \in Slots :
          (WriteStep(r) /\ jobs' # jobs) => ~jobs[reqs[r].jobId].metadata.set]_vars

\* C2: a report handled after the job has left PENDING is a no-op, whether a
\* client or the queue sent it: the handler returns the stored record, and the
\* store (status, result, error, metadata, updatedAt of every record) and the
\* set of running handlers stay as they were.
C2_SecondReportIsNoOp ==
    [][\A jobId \in JobIds :
          (CallbackStep /\ jobs[jobId] # NoJob /\ jobs[jobId].status # JobStatus.PENDING)
          => /\ \A result \in ResultInputs, error \in ErrorInputs :
                  ( /\ result # Undefined \/ error # Undefined
                    /\ PostCallback(jobId, result, error, WEBHOOK_SECRET) )
                  => /\ jobs' = jobs
                     /\ reqs' = reqs
                     /\ response' = Response("webhookCallback", 200, "", jobId,
                                             jobs[jobId], SkipLog)
             /\ \A t \in TaskIds :
                  (tasks[t].jobId = jobId /\ TaskPost(t))
                  => /\ jobs' = jobs
                     /\ reqs' = reqs
                     /\ response' = Response("webhookCallback", 200, "", jobId,
                                             jobs[jobId], SkipLog)]_vars

\* C2 witness: a report was skipped for a job that one report had finalized.
C2_Witness ==
    /\ response.op = "webhookCallback"
    /\ response.log = SkipLog
    /\ response.job.metadata.set
    /\ response.job.updatedAt = 1
    /\ jobs[response.id] = response.job

\* C3: when a report carrying exactly one of result and error is written to a
\* PENDING job, the job becomes COMPLETED iff the report carried result and
\* FAILED iff it carried error, the empty string included.
C3_StatusFollowsReport ==
    [][\A r \in Slots :
          ( /\ WriteStep(r)
            /\ jobs[reqs[r].jobId] # NoJob
            /\ jobs[reqs[r].jobId].status = JobStatus.PENDING
            /\ ~(reqs[r].result # Undefined /\ reqs[r].error # Undefined) )
          => /\ (jobs'[reqs[r].jobId].status = JobStatus.COMPLETED) <=> (reqs[r].result # Undefined)
             /\ (jobs'[reqs[r].jobId].status = JobStatus.FAILED) <=> (reqs[r].error # Undefined)]_vars

\* C4: every stored record that is COMPLETED has a result and no error, and
\* every stored record that is FAILED has an error and no result.
C4_ExactlyOneOfResultError ==
    \A j \in JobIds :
        jobs[j] # NoJob =>
            /\ jobs[j].status = JobStatus.COMPLETED => (jobs[j].result # Null /\ jobs[j].error = Null)
            /\ jobs[j].status = JobStatus.FAILED => (jobs[j].error # Null /\ jobs[j].result = Null)

\* C5: a report's write never changes the status of a record that is already
\* COMPLETED or FAILED.
C5_MonotoneStatus ==
    [][\A r \in Slots :
          ( /\ WriteStep(r)
            /\ jobs[reqs[r].jobId] # NoJob
            /\ jobs[reqs[r].jobId].status \in Terminal )
          => jobs'[reqs[r].jobId].status = jobs[reqs[r].jobId].status]_vars

\* C6: a report whose write is applied after simulateHallucination wrote the
\* record is discarded: the record keeps the malformed result and everything
\* else the anomaly write left.
C6_HallucinationWinsOverReport ==
    [][\A r \in Slots :
          ( /\ WriteStep(r)
            /\ jobs[reqs[r].jobId] # NoJob
            /\ jobs[reqs[r].jobId].result = HallucinationResult )
          => jobs'[reqs[r].jobId] = jobs[reqs[r].jobId]]_vars

\* C7: simulateHallucination on a stored job leaves it COMPLETED with the
\* malformed result and a null error, whatever it was before, and answers 200
\* with that record.
C7_HallucinationForcesCompleted ==
    [][\A j \in JobIds :
          (jobs[j] # NoJob /\ SimulateHallucination(j))
          => /\ jobs'[j].status = JobStatus.COMPLETED
             /\ jobs'[j].result = HallucinationResult
             /\ jobs'[j].error = Null
             /\ response' = Response("simulateHallucination", 200, "", j, jobs'[j], "")]_vars

\* C7 witness: the anomaly was written over a record a report had finalized.
C7_Witness ==
    /\ response.op = "simulateHallucination"
    /\ response.code = 200
    /\ response.job.metadata.set
    /\ jobs[response.id].result = HallucinationResult

\* C8: an authenticated callback carrying both result and error is answered
\* 400, starts no handler and changes no record.
C8_BothRejected ==
    [][\A jobId \in JobIdInputs, result \in ResultInputs \ {Undefined},
          error \in ErrorInputs \ {Undefined} :
          (CallbackStep /\ PostCallback(jobId, result, error, WEBHOOK_SECRET))
          => /\ response'.code = 400
             /\ reqs' = reqs
             /\ jobs' = jobs]_vars

\* C9: an authenticated callback carrying neither result nor error is
\* answered 400 by the validation, starts no handler and changes no record.
C9_NeitherRejected ==
    [][\A jobId \in JobIdInputs :
          (CallbackStep /\ PostCallback(jobId, Undefined, Undefined, WEBHOOK_SECRET))
          => /\ response'.op = "webhookCallback"
             /\ response'.code = 400
             /\ reqs' = reqs
             /\ jobs' = jobs]_vars

\* C9 witness: the refinement of the callback schema refused a body.
C9_Witness ==
    response = Response("webhookCallback", 400, "Either result or error must be provided",
                        0, NoJob, "")

C11_UnauthorizedRejected ==
    [][\A jobId \in JobIdInputs, secret \in SecretInputs \ {WEBHOOK_SECRET} :
          (CallbackStep /\ PostCallback(jobId, UnauthorizedResult, Undefined, secret))
          => /\ response'.op = "webhookCallback"
             /\ response'.code = IF secret = Undefined THEN 401 ELSE 403
             /\ reqs' = reqs
             /\ jobs' = jobs]_vars

\* C11 witness: a wrong secret was refused while a job was waiting for its
\* report.
C11_Witness ==
    /\ response.op = "webhookCallback"
    /\ response.code = 403
    /\ \E j \in JobIds : jobs[j] # NoJob /\ jobs[j].status = JobStatus.PENDING

\* C12: for every prompt of 1 to 10,000 characters, createJob stores a
\* record with status PENDING, result null and error null.
C12_ValidPromptCreatesPending ==
    [][\A p \in Prompts :
          ( /\ PromptLength(p) \in MinPromptLen .. MaxPromptLen
            /\ nextId <= MaxCreates
            /\ CreateJobSave(p) )
          => /\ jobs'[nextId] # NoJob
             /\ jobs'[nextId].status = JobStatus.PENDING
             /\ jobs'[nextId].result = Null
             /\ jobs'[nextId].error = Null]_vars

\* C13: in every reachable state the counts getStats computes are, for each
\* of PENDING, COMPLETED and FAILED, the number of stored records with that
\* status (zero when there is none), they sum to the number of stored records,
\* and a getStats response carries exactly these counts.
C13_StatsPartitionTheStore ==
    LET stored == {j \in JobIds : jobs[j] # NoJob}
        stats == countByStatus(jobs)
    IN /\ DOMAIN stats = {JobStatus.PENDING, JobStatus.COMPLETED, JobStatus.FAILED}
       /\ \A st \in DOMAIN stats :
              stats[st] = Cardinality({j \in stored : jobs[j].status = st})
       /\ stats[JobStatus.PENDING] + stats[JobStatus.COMPLETED] + stats[JobStatus.FAILED]
              = Cardinality(stored)
       /\ response.op = "getStats" => response.stats = stats

\* C13 witness: getStats answered for a store holding one COMPLETED and one
\* FAILED record and no PENDING one.
C13_Witness ==
    /\ response.op = "getStats"
    /\ response.stats[JobStatus.PENDING] = 0
    /\ response.stats[JobStatus.COMPLETED] = 1
    /\ response.stats[JobStatus.FAILED] = 1

\* C14: createJob's answer does not wait for the processing: enqueue can
\* always be acknowledged once the record is saved, and when createJob has
\* answered 201 the task of that job has made no step yet (its prompt lookup,
\* its backend call and its callback are all still to come).
C14_EnqueueDoesNotWait ==
    /\ \A c \in creating : ENABLED CreateJobEnqueue(c)
    /\ \A j \in JobIds :
          (response.op = "createJob" /\ response.code = 201 /\ response.id = j)
          => /\ \E t \in TaskIds : tasks[t].jobId = j
             /\ \A t \in TaskIds :
                    tasks[t].jobId = j
                    => /\ tasks[t].pc = "promptFetcher"
                       /\ tasks[t].result = Undefined
                       /\ tasks[t].error = Undefined
             /\ response.job.status = JobStatus.PENDING

\* C14 witness: createJob answered 201 while the task awaits its prompt lookup.
C14_Witness ==
    /\ response.op = "createJob"
    /\ response.code = 201
    /\ \E t \in TaskIds : tasks[t].jobId = response.id /\ tasks[t].pc = "promptFetcher"
    /\ response.id \in pendingJobs

\* C15: after shutdown has been called, an enqueue call starts no processing
\* task.
C15_NoWorkAfterShutdown ==
    [][\A c \in creating :
          (shutdownCalled /\ CreateJobEnqueue(c)) => tasks' = tasks]_vars

C17_NoRetry ==
    [][\A t \in TaskIds :
          /\ (tasks'[t].pc = "promptFetcher" /\ tasks[t].pc # "promptFetcher")
                => \E c \in creating : tasks'[t].jobId = c.id /\ CreateJobEnqueue(c)
          /\ (tasks'[t].pc = "process" /\ tasks[t].pc # "process")
                => tasks[t].pc = "promptFetcher"
          /\ tasks[t].pc \in {"postResult", "postError", "await", "resolved", "finished"}
                => tasks'[t].pc \in {"postResult", "postError", "await", "resolved", "finished"}
          /\ tasks[t].pc \in {"postError", "resolved", "finished"}
                => tasks'[t].pc \in {"postError", "await", "resolved", "finished"}
          /\ tasks[t].pc # "none" => tasks'[t].jobId = tasks[t].jobId]_vars

\* C17 witness: both deliveries failed and the task finished without another
\* attempt.
C17_Witness ==
    \E t \in TaskIds, j \in JobIds :
        /\ tasks[t].jobId = j
        /\ tasks[t].pc = "finished"
        /\ tasks[t].result = "summary text"
        /\ tasks[t].error = "fetch failed"
        /\ jobs[j] # NoJob
        /\ jobs[j].status = JobStatus.PENDING

\* C18: on every failure inside the task (no prompt, the backend throws, the
\* delivery of the success report throws, the callback route answers the
\* success report with a non-success status) the task goes on to deliver a
\* failure report carrying an error.
C18_FailureReportOnAnyFailure ==
    [][\A t \in TaskIds :
          /\ (TaskPromptFetcher(t) /\ findById(jobs, tasks[t].jobId) = NoJob)
                => (tasks'[t].pc = "postError" /\ tasks'[t].error = PromptMissing)
          /\ (TaskProcess(t) /\ tasks'[t].result = Undefined)
                => (tasks'[t].pc = "postError" /\ tasks'[t].error \in AiErrors)
          /\ (tasks[t].pc = "postResult" /\ TaskPostFails(t))
                => (tasks'[t].pc = "postError" /\ tasks'[t].error # Undefined)
          /\ ( /\ tasks[t].pc = "postResult"
               /\ TaskPost(t)
               /\ response'.op = "webhookCallback"
               /\ response'.code # 200 )
                => (tasks'[t].pc = "postError" /\ tasks'[t].error # Undefined)]_vars

\* C19: when the failure report of a task whose backend failed is written to
\* its PENDING job, the record becomes FAILED with error equal to the
\* backend's error message.
C19_BackendFailureVisible ==
    [][\A r \in Slots :
          ( /\ WriteStep(r)
            /\ reqs[r].from # 0
            /\ reqs[r].error \in AiErrors
            /\ jobs[reqs[r].jobId] # NoJob
            /\ jobs[reqs[r].jobId].status = JobStatus.PENDING )
          => /\ jobs'[reqs[r].jobId].status = JobStatus.FAILED
             /\ jobs'[reqs[r].jobId].error = reqs[r].error]_vars

Orphan(j) ==
    /\ j < nextId
    /\ \A c \in creating : c.id # j
    /\ \A t \in TaskIds : tasks[t].jobId # j

\* C21: when enqueue rejects inside createJob, the store is left as it was
\* (the saved record is not rolled back) and createJob fails; from then on no
\* task is ever started for that id, and every write to its record comes from
\* a report that no task sent.
C21_FailedEnqueueLeavesOrphan ==
    /\ [][\A c \in creating :
              CreateJobEnqueueFails(c)
              => /\ jobs' = jobs
                 /\ (jobs[c.id] = c.job => jobs'[c.id].status = JobStatus.PENDING)
                 /\ response'.code = 500
                 /\ Orphan(c.id)']_vars
    /\ [][\A j \in JobIds :
              Orphan(j)
              => /\ Orphan(j)'
                 /\ \A r \in Slots : (WriteStep(r) /\ reqs[r].jobId = j) => reqs[r].from = 0]_vars

\* C21 witness: createJob failed at enqueue and its record is stored, PENDING.
C21_Witness ==
    /\ response.op = "createJob"
    /\ response.code = 500
    /\ Orphan(1)
    /\ jobs[1] # NoJob
    /\ jobs[1].status = JobStatus.PENDING

\* C22: every stored record that is PENDING has result null and error null,
\* and every step that changes a record's result or error leaves the record
\* with a terminal status.
C22_PendingHasNoOutcome ==
    /\ [](\A j \in JobIds :
            (jobs[j] # NoJob /\ jobs[j].status = JobStatus.PENDING)
            => (jobs[j].result = Null /\ jobs[j].error = Null))
    /\ [][\A j \in JobIds :
              ( /\ jobs[j] # NoJob
                /\ jobs'[j] # NoJob
                /\ jobs'[j].result # jobs[j].result \/ jobs'[j].error # jobs[j].error )
              => jobs'[j].status \in Terminal]_vars

\* C22 witness: a report with a result has passed the status check of a
\* PENDING record and its write is still to come.
C22_Witness ==
    \E r \in Slots :
        /\ reqs[r].pc = "updateStatus"
        /\ reqs[r].result = "summary text"
        /\ jobs[reqs[r].jobId] # NoJob
        /\ jobs[reqs[r].jobId].status = JobStatus.PENDING
        /\ jobs[reqs[r].jobId].result = Null

\* C23: the task never throws: whatever the lookup, the backend and the two
\* deliveries do, the task goes on to a report or settles (a failure report
\* that cannot be delivered is swallowed, any HTTP answer settles the task),
\* a settled task can always run its finally callback, and that callback
\* removes the id from the in-flight set.
C23_TaskAlwaysSettles ==
    /\ [][\A t \in TaskIds :
              /\ TaskPromptFetcher(t) => tasks'[t].pc \in {"process", "postError"}
              /\ TaskProcess(t) => tasks'[t].pc \in {"postResult", "postError"}
              /\ (tasks[t].pc = "postResult" /\ TaskPostFails(t)) => tasks'[t].pc = "postError"
              /\ (tasks[t].pc = "postError" /\ TaskPostFails(t)) => tasks'[t].pc = "resolved"
              /\ (TaskPost(t) /\ response'.op = "webhookCallback") => tasks'[t].pc = "resolved"
              /\ (TaskPost(t) /\ response'.op # "webhookCallback") => tasks'[t].pc = "await"
              /\ \A r \in Slots : (WriteStep(r) /\ reqs[r].from = t) => tasks'[t].pc = "resolved"
              /\ TaskFinally(t) => (tasks'[t].pc = "finished" /\ tasks[t].jobId \notin pendingJobs')]_vars
    /\ [](\A t \in TaskIds :
              /\ tasks[t].pc = "resolved" => ENABLED TaskFinally(t)
              /\ tasks[t].pc = "postError" => ENABLED TaskPostFails(t)
              /\ tasks[t].pc = "await" => \E r \in Slots : reqs[r].from = t /\ reqs[r].pc = "updateStatus")

\* C23 witness: the prompt was missing, the failure report could not be
\* delivered, and the task finished with its id out of the in-flight set.
C23_Witness ==
    \E t \in TaskIds :
        /\ tasks[t].pc = "finished"
        /\ tasks[t].error = PromptMissing
        /\ tasks[t].jobId \notin pendingJobs
        /\ jobs[tasks[t].jobId] = NoJob
        /\ ~shutdownCalled

\* The job of task t is COMPLETED with the text the backend returned to t.
CompletedByTask(t) ==
    /\ tasks[t].result # Undefined
    /\ jobs[tasks[t].jobId] # NoJob
    /\ jobs[tasks[t].jobId].status = JobStatus.COMPLETED
    /\ jobs[tasks[t].jobId].result = tasks[t].result

\* One of the conditions of C24 has failed for task t: the lookup, the backend
\* or the delivery failed; the job was deleted or overridden by the anomaly;
\* or the callback route answered the report without accepting it.
NotCompletable(t) ==
    /\ tasks[t].pc # "none"
    /\ \/ tasks[t].error # Undefined
       \/ jobs[tasks[t].jobId] = NoJob
       \/ jobs[tasks[t].jobId].result = HallucinationResult
       \/ /\ tasks[t].pc = "resolved"
          /\ response.op = "webhookCallback"
          /\ response.log = SkipLog \/ response.code # 200

\* C24: under fairness, a job handed to the queue by createJob eventually is
\* COMPLETED with result equal to the text the backend returned, unless the
\* backend or the delivery fails, the report is not accepted, or the job is
\* deleted or overridden by simulateHallucination.
C24_EventuallyCompleted ==
    \A t \in TaskIds :
        (tasks[t].pc = "promptFetcher") ~> (CompletedByTask(t) \/ NotCompletable(t))

\* C24 witness: the queue's success report was accepted and written, and the
\* job is COMPLETED with the backend's text.
C24_Witness ==
    \E t \in TaskIds :
        /\ CompletedByTask(t)
        /\ ~NotCompletable(t)
        /\ tasks[t].pc = "finished"
        /\ jobs[tasks[t].jobId].updatedAt = 1

\* Task t can take its next step.
CanProceed(t) ==
    /\ tasks[t].pc = "promptFetcher" => ENABLED TaskPromptFetcher(t)
    /\ tasks[t].pc = "process" => ENABLED TaskProcess(t)
    /\ tasks[t].pc \in {"postResult", "postError"} => ENABLED TaskPost(t)
    /\ tasks[t].pc = "await" => \E r \in Slots : reqs[r].from = t /\ ENABLED HandleUpdateStatus(r)
    /\ tasks[t].pc = "resolved" => ENABLED TaskFinally(t)

\* C25: while the backend call of one task hangs, every enqueue of another
\* createJob can be acknowledged and every other task can take its next step,
\* up to the write that finalizes its job.
C25_HangBlocksOnlyItsTask ==
    \A h \in TaskIds :
        tasks[h].pc = "process"
        => /\ \A c \in creating :
                (\E t \in TaskIds : tasks[t].pc = "none") => ENABLED CreateJobEnqueue(c)
           /\ \A t \in TaskIds \ {h} : CanProceed(t)

\* C25 witness: the first task is still in its backend call, and the job of
\* the second has been processed and finalized by that task's report.
C25_Witness ==
    /\ tasks[1].pc = "process"
    /\ tasks[2].pc = "finished"
    /\ tasks[2].jobId # tasks[1].jobId
    /\ CompletedByTask(2)
    /\ jobs[tasks[1].jobId] # NoJob
    /\ jobs[tasks[1].jobId].status = JobStatus.PENDING

\* The store after the write of the handler whose request is q.
Written(js, q) ==
    updateStatus(js, q.jobId, CallbackStatus(q.error), OrNull(q.result), OrNull(q.error),
                 q.metadata)

\* C26: the writes of two reports for different jobs commute: whichever is
\* handled first, each job ends with the same record, and the write for one
\* job leaves the other job's record as it was.
C26_ReportsOfDistinctJobsCommute ==
    \A r1 \in Slots, r2 \in Slots :
        ( /\ reqs[r1].pc = "updateStatus"
          /\ reqs[r2].pc = "updateStatus"
          /\ reqs[r1].jobId # reqs[r2].jobId )
        => /\ Written(Written(jobs, reqs[r1]), reqs[r2]) = Written(Written(jobs, reqs[r2]), reqs[r1])
           /\ Written(jobs, reqs[r1])[reqs[r2].jobId] = jobs[reqs[r2].jobId]

\* C26 witness: A was enqueued first (task 1) and B second (task 2); B's
\* record is terminal while A's report has not been delivered yet.
C26_Witness ==
    /\ tasks[1].pc = "postResult"
    /\ tasks[2].pc \in {"resolved", "finished"}
    /\ tasks[1].jobId # tasks[2].jobId
    /\ jobs[tasks[1].jobId] # NoJob
    /\ jobs[tasks[1].jobId].status = JobStatus.PENDING
    /\ jobs[tasks[2].jobId] # NoJob
    /\ jobs[tasks[2].jobId].status \in Terminal

\* C27: a PENDING record changes only by the write of an accepted report, by
\* simulateHallucination or by deleteJob.
C27_PendingUntilActedOn ==
    [][\A j \in JobIds :
          ( /\ jobs[j] # NoJob
            /\ jobs[j].status = JobStatus.PENDING
            /\ jobs'[j] # jobs[j] )
          => \/ \E r \in Slots : WriteStep(r) /\ reqs[r].jobId = j
             \/ SimulateHallucination(j)
             \/ DeleteJob(j)]_vars

\* C27 witness: the backend failed, the failure report was never delivered,
\* the task is over and the job is still PENDING.
C27_Witness ==
    \E t \in TaskIds :
        /\ tasks[t].pc = "finished"
        /\ tasks[t].result = Undefined
        /\ tasks[t].error = "timeout"
        /\ jobs[tasks[t].jobId] # NoJob
        /\ jobs[tasks[t].jobId].status = JobStatus.PENDING
        /\ \A r \in Slots : reqs[r].pc = "idle"

\* C28: a report that finalizes a PENDING job as COMPLETED stores metadata,
\* and one that finalizes it as FAILED stores the error text and leaves the
\* metadata unpopulated.
C28_MetadataOnCompletedOnly ==
    [][\A r \in Slots :
          ( /\ WriteStep(r)
            /\ jobs[reqs[r].jobId] # NoJob
            /\ jobs[reqs[r].jobId].status = JobStatus.PENDING )
          => /\ jobs'[reqs[r].jobId].status = JobStatus.COMPLETED
                  => jobs'[reqs[r].jobId].metadata.set
             /\ jobs'[reqs[r].jobId].status = JobStatus.FAILED
                  => /\ jobs'[reqs[r].jobId].error = reqs[r].error
                     /\ ~jobs'[reqs[r].jobId].metadata.set]_vars

\* C29: the metadata stored on a job that the queue's success report
\* finalizes as COMPLETED is the metadata the backend returned to that task.
C29_BackendMetadataStored ==
    [][\A r \in Slots :
          ( /\ WriteStep(r)
            /\ reqs[r].from # 0
            /\ tasks[reqs[r].from].pc = "await"
            /\ tasks[reqs[r].from].result # Undefined
            /\ tasks[reqs[r].from].error = Undefined
            /\ jobs[reqs[r].jobId] # NoJob
            /\ jobs[reqs[r].jobId].status = JobStatus.PENDING )
          => /\ jobs'[reqs[r].jobId].status = JobStatus.COMPLETED
             /\ jobs'[reqs[r].jobId].metadata = tasks[reqs[r].from].metadata]_vars

\* C30: as long as shutdown has not been called, a job id is in the
\* in-flight set exactly while some task for that id is unfinished.
C30_InFlightSetTracksTasks ==
    ~shutdownCalled
    => \A j \in JobIds :
          j \in pendingJobs
          <=> \E t \in TaskIds : tasks[t].jobId = j /\ tasks[t].pc \notin {"none", "finished"}

\* C31: a record appears only at the id createJob assigned, and its prompt
\* stays what createJob stored as long as the record exists, whatever the
\* callback handler, simulateHallucination or the queue does.
C31_IdAndPromptImmutable ==
    [][\A j \in JobIds :
          /\ (jobs[j] # NoJob /\ jobs'[j] # NoJob) => jobs'[j].prompt = jobs[j].prompt
          /\ (jobs[j] = NoJob /\ jobs'[j] # NoJob)
                => /\ j = nextId
                   /\ nextId' = nextId + 1
                   /\ \E p \in Prompts : jobs'[j].prompt = Trim(p) /\ CreateJobSave(p)]_vars

\* C31 witness: a job was finalized by its own task's report and then hit
\* by the anomaly; its prompt is the one createJob stored.
C31_Witness ==
    \E t \in TaskIds :
        /\ tasks[t].pc = "finished"
        /\ jobs[tasks[t].jobId] # NoJob
        /\ jobs[tasks[t].jobId].prompt = Prompt(0, 1, 0)
        /\ jobs[tasks[t].jobId].updatedAt = 2
        /\ jobs[tasks[t].jobId].result = HallucinationResult

\* C32: a record whose status is COMPLETED or FAILED is never PENDING in the
\* next state, as long as it exists.
C32_NeverBackToPending ==
    [][\A j \in JobIds :
          (jobs[j] # NoJob /\ jobs[j].status \in Terminal /\ jobs'[j] # NoJob)
          => jobs'[j].status \in Terminal]_vars

\* C32 witness: a record that was already finalized was written a second
\* time, by a report carrying an error, and is FAILED.
C32_Witness ==
    \E j \in JobIds :
        /\ jobs[j] # NoJob
        /\ jobs[j].updatedAt = 2
        /\ jobs[j].status = JobStatus.FAILED

\* C33: a record that deleteJob removed stays removed: the write of a report
\* whose handler read the record before the delete, a report that arrives
\* after the delete and simulateHallucination all leave the store without it
\* and are answered 404.
C33_DeletedNeverRecreated ==
    [][\A j \in JobIds :
          (j < nextId /\ jobs[j] = NoJob)
          => /\ jobs'[j] = NoJob
             /\ \A r \in Slots :
                   (WriteStep(r) /\ reqs[r].jobId = j)
                   => response' = Response("webhookCallback", 404, "Job not found", 0, NoJob, "")
             /\ \A result \in ResultInputs, error \in ErrorInputs :
                   ( /\ webhookCallbackSchema(j, result, error) = ""
                     /\ PostCallback(j, result, error, WEBHOOK_SECRET) )
                   => /\ response' = Response("webhookCallback", 404, "Job not found", 0, NoJob, "")
                      /\ reqs' = reqs
             /\ SimulateHallucination(j)
                   => response' = Response("simulateHallucination", 404, "Job not found", 0, NoJob, "")]_vars

\* C33 witness: the handler of the queue's report read the PENDING record,
\* deleteJob then removed it, and the handler's write is still to come.
C33_Witness ==
    \E r \in Slots :
        /\ reqs[r].pc = "updateStatus"
        /\ reqs[r].from # 0
        /\ reqs[r].jobId < nextId
        /\ jobs[reqs[r].jobId] = NoJob
        /\ response.op = "deleteJob"
        /\ response.code = 200

\* The number of stored records.
StoredCount(js) == Cardinality({j \in JobIds : js[j] # NoJob})

\* C34: the arrival of a report for id A, the write of its handler and
\* simulateHallucination(A) leave every record with another id as it was and
\* the number of stored records unchanged.
C34_OtherRecordsUntouched ==
    [][/\ \A r \in Slots :
             WriteStep(r)
             => /\ \A j \in JobIds \ {reqs[r].jobId} : jobs'[j] = jobs[j]
                /\ StoredCount(jobs') = StoredCount(jobs)
       /\ \A a \in JobIds :
             /\ SimulateHallucination(a)
                   => /\ \A j \in JobIds \ {a} : jobs'[j] = jobs[j]
                      /\ StoredCount(jobs') = StoredCount(jobs)
             /\ \A result \in ResultInputs, error \in ErrorInputs :
                   PostCallback(a, result, error, WEBHOOK_SECRET) => jobs' = jobs]_vars

\* C34 witness: two records are stored; the second was written twice and the
\* first is still as createJob stored it.
C34_Witness ==
    /\ jobs[1] = NewJob(Prompt(0, 1, 0))
    /\ jobs[2] # NoJob
    /\ jobs[2].updatedAt = 2
    /\ response.code = 200
    /\ response.id = 2

\* How far a processJob call has come.
TaskRank(pc) ==
    CASE pc = "none" -> 0
      [] pc = "promptFetcher" -> 1
      [] pc = "process" -> 2
      [] pc = "postResult" -> 3
      [] pc = "postError" -> 4
      [] pc = "await" -> 5
      [] pc = "resolved" -> 6
      [] pc = "finished" -> 7

\* C35: a task never steps back, so it sends the success report at most
\* once and the failure report at most once; it goes from the success report
\* to the failure report only when the delivery threw, a step in which the
\* callback route handled nothing and answered nothing; and once the route
\* has taken a report in or answered it the task sends nothing more.
C35_AtMostOneReportOfEachKind ==
    [][\A t \in TaskIds :
          /\ tasks[t].pc # "none" => TaskRank(tasks'[t].pc) >= TaskRank(tasks[t].pc)
          /\ (tasks[t].pc = "postResult" /\ tasks'[t].pc = "postError")
                => /\ TaskPostFails(t)
                   /\ reqs' = reqs
                   /\ jobs' = jobs
                   /\ response' = NoResponse
          /\ (tasks[t].pc \in {"postResult", "postError"} /\ response'.op = "webhookCallback"
                /\ tasks'[t] # tasks[t])
                => tasks'[t].pc = "resolved"
          /\ tasks[t].pc \in {"await", "resolved", "finished"}
                => tasks'[t].pc \notin {"postResult", "postError"}]_vars

\* C35 witness: the delivery of the success report threw, the failure
\* report was delivered and finalized the job, and the task's fetch resolved.
C35_Witness ==
    \E t \in TaskIds :
        /\ tasks[t].pc = "resolved"
        /\ tasks[t].result = "summary text"
        /\ tasks[t].error = "fetch failed"
        /\ response.op = "webhookCallback"
        /\ response.code = 200
        /\ jobs[tasks[t].jobId] # NoJob
        /\ jobs[tasks[t].jobId].status = JobStatus.FAILED
        /\ jobs[tasks[t].jobId].error = "fetch failed"

\* C36: every id createJob passes to enqueue has, at that moment, a stored
\* record with status PENDING; and a createJob whose validation or save fails
\* stores nothing and enqueues nothing.
C36_EnqueueAfterPersist ==
    [][/\ \A c \in creating :
             CreateJobEnqueue(c)
             => /\ jobs[c.id] # NoJob
                /\ jobs[c.id].status = JobStatus.PENDING
       /\ \A p \in Prompts :
             (CreateJobSave(p) /\ jobs' = jobs)
             => /\ creating' = creating
                /\ tasks' = tasks
                /\ pendingJobs' = pendingJobs]_vars

C38_InFlightSetDoesNotLeak ==
    (\A t \in TaskIds : tasks[t].pc \in {"none", "finished"}) => pendingJobs = {}

\* C38 witness: the same id was enqueued twice, shutdown was called, and
\* both tasks are over.
C38_Witness ==
    /\ \A t \in TaskIds : tasks[t].pc = "finished"
    /\ tasks[1].jobId = tasks[2].jobId
    /\ shutdownCalled
    /\ pendingJobs = {}

====
